---- MODULE Spec2Model ----
(***************************************************************************)
(* Emotional Tone & Stress Analyzer (src/main.py).                        *)
(*                                                                         *)
(* Text is a sequence of one-character strings, so that lower(), strip()   *)
(* and the substring test `word in lower` are computed, not assumed.      *)
(* Time is in seconds; the SQLite clock (CURRENT_TIMESTAMP) is UTC and    *)
(* the Python clock (date.today()) is UTC plus the machine's offset.      *)
(***************************************************************************)
EXTENDS Integers, Sequences, FiniteSets, TLC

VARIABLES
  entries,      \* rows of table `entries`, in rowid order
  nextId,       \* the id AUTOINCREMENT gives the next inserted row
  now,          \* the UTC wall clock, in seconds
  tz,           \* local time minus UTC, in seconds
  openConns,    \* connections db_exec opened and did not close
  tab,          \* App.tab
  dark,         \* App.dark
  chart,        \* what update_chart / render_analytics drew
  listed,       \* what render_reports listed
  res,          \* what show / analyze_t put in the result frame
  dialog,       \* the messagebox text of the latest handler
  reportsDir,   \* whether the daily_reports folder exists
  reportFiles   \* local date -> contents of report_<date>.txt

vars == <<entries, nextId, now, tz, openConns, tab, dark, chart, listed, res,
          dialog, reportsDir, reportFiles>>

----------------------------------------------------------------------------
\* Bounds of the model.

\* Rows inserted over a run of the whole application.
MaxInserts == 2

\* Rows inserted over a run of the store-driving handlers alone.
MaxRows == 3

\* Half-day steps the clock takes over a run.
MaxTicks == 1

\* Connections that may be left open at once.
MaxOpen == 1

----------------------------------------------------------------------------
\* Configuration (src/main.py:43-46).

EMOTIONS ==
  <<"Energetic", "Motivated", "Neutral", "Tired", "Sad", "Angry", "Stressed",
    "Overwhelmed">>

EmotionSet == {EMOTIONS[i] : i \in DOMAIN EMOTIONS}

STRESS ==
  "Energetic" :> 15 @@ "Motivated" :> 20 @@ "Neutral" :> 35 @@ "Tired" :> 55
  @@ "Sad" :> 65 @@ "Angry" :> 70 @@ "Stressed" :> 80 @@ "Overwhelmed" :> 95

WORDS ==
  "Energetic" :> << <<"e","n","e","r","g","e","t","i","c">>,
                    <<"e","x","c","i","t","e","d">>,
                    <<"p","u","m","p","e","d">>,
                    <<"a","w","e","s","o","m","e">>,
                    <<"a","m","a","z","i","n","g">> >>
  @@ "Motivated" :> << <<"m","o","t","i","v","a","t","e","d">>,
                       <<"f","o","c","u","s","e","d">>,
                       <<"g","o","a","l">>,
                       <<"s","u","c","c","e","e","d">>,
                       <<"s","t","u","d","y">> >>
  @@ "Neutral" :> << <<"o","k","a","y">>,
                     <<"f","i","n","e">>,
                     <<"n","o","r","m","a","l">>,
                     <<"a","l","r","i","g","h","t">>,
                     <<"m","e","h">> >>
  @@ "Tired" :> << <<"t","i","r","e","d">>,
                   <<"e","x","h","a","u","s","t","e","d">>,
                   <<"s","l","e","e","p","y">>,
                   <<"s","l","e","e","p">>,
                   <<"f","a","t","i","g","u","e">> >>
  @@ "Sad" :> << <<"s","a","d">>,
                 <<"u","n","h","a","p","p","y">>,
                 <<"c","r","y","i","n","g">>,
                 <<"l","o","n","e","l","y">>,
                 <<"m","i","s","s">> >>
  @@ "Angry" :> << <<"a","n","g","r","y">>,
                   <<"m","a","d">>,
                   <<"f","u","r","i","o","u","s">>,
                   <<"h","a","t","e">>,
                   <<"a","n","n","o","y","e","d">> >>
  @@ "Stressed" :> << <<"s","t","r","e","s","s","e","d">>,
                      <<"e","x","a","m">>,
                      <<"d","e","a","d","l","i","n","e">>,
                      <<"p","r","e","s","s","u","r","e">>,
                      <<"w","o","r","r","i","e","d">> >>
  @@ "Overwhelmed" :> << <<"o","v","e","r","w","h","e","l","m","e","d">>,
                         <<"c","a","n","t">>,
                         <<"p","a","n","i","c">>,
                         <<"h","e","l","p">>,
                         <<"b","r","e","a","k","i","n","g">> >>

\* The characters of each label, as f"[Quick: {e}]" formats it.
LabelChars ==
  "Energetic" :> <<"E","n","e","r","g","e","t","i","c">>
  @@ "Motivated" :> <<"M","o","t","i","v","a","t","e","d">>
  @@ "Neutral" :> <<"N","e","u","t","r","a","l">>
  @@ "Tired" :> <<"T","i","r","e","d">>
  @@ "Sad" :> <<"S","a","d">>
  @@ "Angry" :> <<"A","n","g","r","y">>
  @@ "Stressed" :> <<"S","t","r","e","s","s","e","d">>
  @@ "Overwhelmed" :> <<"O","v","e","r","w","h","e","l","m","e","d">>

----------------------------------------------------------------------------
\* Text primitives: str.lower, str.strip, `in`, Text.get.

UpperCase ==
  <<"A","B","C","D","E","F","G","H","I","J","K","L","M","N","O","P","Q","R",
    "S","T","U","V","W","X","Y","Z">>

LowerCase ==
  <<"a","b","c","d","e","f","g","h","i","j","k","l","m","n","o","p","q","r",
    "s","t","u","v","w","x","y","z">>

\* str.lower on one character.
LowerChar(c) ==
  IF \E i \in DOMAIN UpperCase : UpperCase[i] = c
  THEN LowerCase[CHOOSE i \in DOMAIN UpperCase : UpperCase[i] = c]
  ELSE c

\* text.lower()
Lower(text) == [i \in DOMAIN text |-> LowerChar(text[i])]

\* word in text
Contains(text, word) ==
  \E k \in 0..(Len(text) - Len(word)) : SubSeq(text, k + 1, k + Len(word)) = word

Whitespace == {" ", "\n", "\t", "\r"}

\* A strip that drops nothing.
StripNothing(text) == text

\* text.strip(): drop the leading and the trailing whitespace.
Strip(text) ==
  LET inked == {i \in DOMAIN text : text[i] \notin Whitespace}
  IN  IF inked = {} THEN <<>>
      ELSE SubSeq(text,
                  CHOOSE i \in inked : \A j \in inked : i <= j,
                  CHOOSE i \in inked : \A j \in inked : j <= i)

\* Text.get("1.0", tk.END): the typed content and the widget's final newline.
TextGet(typed) == typed \o <<"\n">>

----------------------------------------------------------------------------
\* analyze (src/main.py:98-102).

\* sum(1 for word in WORDS[emotion] if word in lower)
Score(emotion, lower) ==
  Cardinality({k \in DOMAIN WORDS[emotion] : Contains(lower, WORDS[emotion][k])})

\* max(scores, key=scores.get): the dict is scanned in insertion order, which is
\* the order of EMOTIONS, and a later key wins only with a strictly larger value.
RECURSIVE MaxKey(_, _, _)
MaxKey(scores, i, best) ==
  IF i > Len(EMOTIONS) THEN best
  ELSE MaxKey(scores, i + 1,
              IF scores[EMOTIONS[i]] > scores[best] THEN EMOTIONS[i] ELSE best)

\* A scan in which a later key wins with an equal value too.
RECURSIVE MaxKeyLast(_, _, _)
MaxKeyLast(scores, i, best) ==
  IF i > Len(EMOTIONS) THEN best
  ELSE MaxKeyLast(scores, i + 1,
                  IF scores[EMOTIONS[i]] >= scores[best] THEN EMOTIONS[i] ELSE best)

\* analyze with the scan that lets a later emotion win a tie.
analyzeTieLast(text) ==
  LET lower  == Lower(text)
      scores == [e \in EmotionSet |-> Score(e, lower)]
      top    == CHOOSE m \in {scores[e] : e \in EmotionSet} :
                  \A e \in EmotionSet : scores[e] <= m
      best   == IF top > 0 THEN MaxKeyLast(scores, 2, EMOTIONS[1]) ELSE "Neutral"
  IN  <<best, STRESS[best]>>

analyze(text) ==
  LET lower  == Lower(text)
      scores == [e \in EmotionSet |-> Score(e, lower)]
      top    == CHOOSE m \in {scores[e] : e \in EmotionSet} :
                  \A e \in EmotionSet : scores[e] <= m
      best   == IF top > 0 THEN MaxKey(scores, 2, EMOTIONS[1]) ELSE "Neutral"
  IN  <<best, STRESS[best]>>

----------------------------------------------------------------------------
\* The store: table `entries` and its AUTOINCREMENT counter.

SecondsPerDay == 86400

HalfDay == SecondsPerDay \div 2

\* DATE(ts) of a stored CURRENT_TIMESTAMP: the UTC calendar day.
SqlDate(ts) == ts \div SecondsPerDay

\* date.today(): the local calendar day.
Today(clock, offset) == (clock + offset) \div SecondsPerDay

\* LIMIT 50 of get_all.
Limit == 50

\* entries[:10] of render_reports.
ListLimit == 10

Min(a, b) == IF a < b THEN a ELSE b

\* SELECT emotion, COUNT(*) ... GROUP BY emotion, then dict(): one key per
\* label met in the rows, counting the rows as they are scanned.
RECURSIVE GroupCount(_, _, _)
GroupCount(rows, i, acc) ==
  IF i > Len(rows) THEN acc
  ELSE LET e == rows[i].emotion
       IN  GroupCount(rows, i + 1,
                      IF e \in DOMAIN acc THEN [acc EXCEPT ![e] = @ + 1]
                      ELSE (e :> 1) @@ acc)

\* ORDER BY ts DESC LIMIT 50: SQLite leaves the order of rows with equal ts
\* open, so every order that is descending in ts is a possible answer.
OrderByTsDesc(rows) ==
  LET n     == Len(rows)
      perms == {p \in [1..n -> 1..n] : \A i, j \in 1..n : i # j => p[i] # p[j]}
      desc  == {p \in perms : \A i \in 1..(n - 1) : rows[p[i]].ts >= rows[p[i + 1]].ts}
  IN  {SubSeq([i \in 1..n |-> rows[p[i]]], 1, Min(Limit, n)) : p \in desc}

\* The statements the program sends.
InsertStmt(text, emotion, stress) ==
  [op |-> "INSERT", text |-> text, emotion |-> emotion, stress |-> stress]

DeleteStmt == [op |-> "DELETE"]

CountsStmt == [op |-> "COUNTS"]

AllStmt == [op |-> "ALL"]

TodayStmt(day) == [op |-> "TODAY", day |-> day]

\* DELETE that spares the newest row.
DeleteAllButLast(db) ==
  [rows |-> IF db.rows = <<>> THEN <<>> ELSE <<db.rows[Len(db.rows)]>>,
   seq  |-> db.seq]

\* DELETE FROM entries: every row goes, the AUTOINCREMENT counter stays.
DeleteAll(db) == [rows |-> <<>>, seq |-> db.seq]

\* INSERT that takes the stress of the default label.
InsertRowDefaultStress(db, clock, q) ==
  [rows |-> Append(db.rows, [id |-> db.seq, text |-> q.text, emotion |-> q.emotion,
                             stress |-> STRESS["Neutral"], ts |-> clock]),
   seq  |-> db.seq + 1]

\* INSERT INTO entries (text, emotion, stress): id from AUTOINCREMENT, ts from
\* DEFAULT CURRENT_TIMESTAMP.
InsertRow(db, clock, q) ==
  [rows |-> Append(db.rows, [id |-> db.seq, text |-> q.text, emotion |-> q.emotion,
                             stress |-> q.stress, ts |-> clock]),
   seq  |-> db.seq + 1]

\* GROUP BY that reports every label, the absent ones with 0.
CountRowsAllLabels(rows) ==
  [e \in EmotionSet |-> Cardinality({i \in DOMAIN rows : rows[i].emotion = e})]

\* dict(db_exec("SELECT emotion, COUNT(*) FROM entries GROUP BY emotion"))
CountRows(rows) == GroupCount(rows, 1, <<>>)

\* SELECT * FROM entries WHERE DATE(ts) = ?, in rowid order.
SelectToday(rows, day) == SelectSeq(rows, LAMBDA r : SqlDate(r.ts) = day)

\* conn.execute(query, params): the database after the statement and the
\* possible answers of fetchall().
Execute(db, clock, q) ==
  CASE q.op = "INSERT" -> [db |-> InsertRow(db, clock, q), out |-> {<<>>}]
    [] q.op = "DELETE" -> [db |-> DeleteAll(db), out |-> {<<>>}]
    [] q.op = "COUNTS" -> [db |-> db, out |-> {CountRows(db.rows)}]
    [] q.op = "ALL"    -> [db |-> db, out |-> OrderByTsDesc(db.rows)]
    [] q.op = "TODAY"  -> [db |-> db, out |-> {SelectToday(db.rows, q.day)}]

\* Where a statement can fail.
Faults == {"none", "execute", "commit"}

\* db_exec (src/main.py:51-56): connect, execute, commit, close, with no
\* handler around them. An error in execute or in commit leaves the function
\* before conn.close(); the uncommitted statement is rolled back.
db_exec(db, clock, q, fault) ==
  LET done == Execute(db, clock, q)
  IN  IF fault = "execute" \/ fault = "commit"
      THEN [db |-> db, out |-> {<<>>}, raised |-> TRUE, open |-> 1]
      ELSE [db |-> done.db, out |-> done.out, raised |-> FALSE, open |-> 0]

save_entry(db, clock, text, emotion, stress, fault) ==
  db_exec(db, clock, InsertStmt(text, emotion, stress), fault)

get_counts(db, clock, fault) == db_exec(db, clock, CountsStmt, fault)

get_all(db, clock, fault) == db_exec(db, clock, AllStmt, fault)

get_today(db, clock, offset, fault) ==
  db_exec(db, clock, TodayStmt(Today(clock, offset)), fault)

clear_all(db, clock, fault) == db_exec(db, clock, DeleteStmt, fault)

----------------------------------------------------------------------------
\* save_report (src/main.py:83-94).

RECURSIVE Sum(_, _)
Sum(xs, i) == IF i > Len(xs) THEN 0 ELSE xs[i] + Sum(xs, i + 1)

\* emotions.count(e)
Count(xs, e) == Cardinality({i \in DOMAIN xs : xs[i] = e})

\* max(set(emotions), key=emotions.count): the set is scanned in hash order,
\* which changes from one interpreter run to the next, so any label whose
\* count is the largest can be the first one met.
Dominants(emotions) ==
  LET labels == {emotions[i] : i \in DOMAIN emotions}
  IN  {e \in labels : \A f \in labels : Count(emotions, f) <= Count(emotions, e)}

\* e[4].split(' ')[1][:5]: the HH:MM of the stored timestamp, as a minute of
\* its UTC day.
ClockTime(ts) == (ts % SecondsPerDay) \div 60

\* The text of the report: header and one line per entry.
ReportText(rows, day, dominant) ==
  [day      |-> day,
   total    |-> Len(rows),
   avg      |-> Sum([i \in DOMAIN rows |-> rows[i].stress], 1) \div Len(rows),
   dominant |-> dominant,
   lines    |-> [i \in DOMAIN rows |->
                   [time |-> ClockTime(rows[i].ts), emotion |-> rows[i].emotion,
                    stress |-> rows[i].stress]]]

\* save_report that makes the folder and writes the file before looking at
\* the entries.
save_reportEager(db, clock, offset, fs, fault) ==
  LET r    == get_today(db, clock, offset, fault)
      rows == CHOOSE x \in r.out : TRUE
      day  == Today(clock, offset)
  IN  IF r.raised
      THEN {[ret |-> "raised", dir |-> fs.dir, files |-> fs.files, open |-> r.open]}
      ELSE IF rows = <<>>
      THEN {[ret |-> "None", dir |-> TRUE, files |-> fs.files, open |-> r.open]}
      ELSE {[ret |-> "True", dir |-> TRUE,
             files |-> (day :> ReportText(rows, day, d)) @@ fs.files,
             open |-> r.open] : d \in Dominants([i \in DOMAIN rows |-> rows[i].emotion])}

\* The possible outcomes of save_report on file system fs = [dir, files].
save_report(db, clock, offset, fs, fault) ==
  LET r    == get_today(db, clock, offset, fault)
      rows == CHOOSE x \in r.out : TRUE
      day  == Today(clock, offset)
  IN  IF r.raised
      THEN {[ret |-> "raised", dir |-> fs.dir, files |-> fs.files, open |-> r.open]}
      ELSE IF rows = <<>>
      THEN {[ret |-> "None", dir |-> fs.dir, files |-> fs.files, open |-> r.open]}
      ELSE {[ret |-> "True", dir |-> TRUE,
             files |-> (day :> ReportText(rows, day, d)) @@ fs.files,
             open |-> r.open] : d \in Dominants([i \in DOMAIN rows |-> rows[i].emotion])}

----------------------------------------------------------------------------
\* Inputs of the handlers.

\* What the user types into the text box.
TypedTexts ==
  { <<>>,
    <<" "," ">>,
    <<"x","y","z","1","2","3">>,
    <<" ","M","a","d"," ","S","a","d"," ">> }

\* The Quick Entry buttons pressed in a run of the whole application.
QuickInputs == {"Tired"}

\* The Quick Entry buttons pressed in a run of the store-driving handlers.
StoreInputs == {"Sad", "Tired"}

\* Offsets of local time from UTC, in seconds.
TzOffsets == {-18000, 0}

\* self.txt.get("1.0", tk.END).strip() of every typed text.
Stripped == [t \in TypedTexts |-> Strip(TextGet(t))]

\* analyze(text) of every typed text that is not blank.
Analysed == [t \in {Stripped[x] : x \in TypedTexts} \ {<<>>} |-> analyze(t)]

----------------------------------------------------------------------------
\* The window (class App).

NoChart == [drawn |-> FALSE, data |-> <<>>]

NoList == [drawn |-> FALSE, total |-> 0, ids |-> <<>>]

NoResult == [drawn |-> FALSE, emotion |-> "", stress |-> 0, color |-> ""]

\* The store as the handlers see it.
Db == [rows |-> entries, seq |-> nextId]

\* show: the label and the stress line, coloured by band.
show(e, s) ==
  [drawn |-> TRUE, emotion |-> e, stress |-> s,
   color |-> IF s < 40 THEN "#22C55E" ELSE IF s < 70 THEN "#EAB308" ELSE "#EF4444"]

\* update_chart: the old chart is destroyed, then the counts are read.
update_chart(db, clock, fault) ==
  LET r == get_counts(db, clock, fault)
  IN  IF r.raised THEN [chart |-> NoChart, open |-> r.open]
      ELSE [chart |-> [drawn |-> TRUE, data |-> CHOOSE d \in r.out : TRUE],
            open |-> r.open]

\* render_reports: the total and the first ten rows of get_all().
render_reports(db, clock, fault) ==
  LET r == get_all(db, clock, fault)
  IN  IF r.raised THEN {[listed |-> NoList, open |-> r.open]}
      ELSE {[listed |-> [drawn |-> TRUE, total |-> Len(rows),
                         ids |-> [i \in 1..Min(ListLimit, Len(rows)) |-> rows[i].id]],
             open |-> r.open] : rows \in r.out}

\* Tabs whose render_* method reads the store.
ReadsStore(t) == t # 1

\* build: what the content area of tab t holds once it is drawn.
build(t, db, clock, fault) ==
  CASE t = 0 -> {[chart |-> update_chart(db, clock, fault).chart, listed |-> NoList,
                  open |-> update_chart(db, clock, fault).open]}
    [] t = 1 -> {[chart |-> NoChart, listed |-> NoList, open |-> 0]}
    [] t = 2 -> {[chart |-> update_chart(db, clock, fault).chart, listed |-> NoList,
                  open |-> update_chart(db, clock, fault).open]}
    [] t = 3 -> {[chart |-> NoChart, listed |-> o.listed, open |-> o.open] :
                   o \in render_reports(db, clock, fault)}

\* A statement may fail only while the model still counts open connections.
MayFail(fault) == fault = "none" \/ openConns < MaxOpen

\* switch(i): every widget is destroyed and the window is built again.
Rebuild(i, db, fault) ==
  /\ fault # "none" => ReadsStore(i)
  /\ \E o \in build(i, db, now, fault) :
       /\ chart' = o.chart
       /\ listed' = o.listed
       /\ openConns' = openConns + o.open
  /\ tab' = i
  /\ res' = NoResult

switch(i, fault) ==
  /\ MayFail(fault)
  /\ Rebuild(i, Db, fault)
  /\ UNCHANGED <<entries, nextId, now, tz, dark, dialog, reportsDir, reportFiles>>

toggle(fault) ==
  /\ MayFail(fault)
  /\ dark' = ~dark
  /\ Rebuild(tab, Db, fault)
  /\ UNCHANGED <<entries, nextId, now, tz, dialog, reportsDir, reportFiles>>

\* clear: asks, deletes, rebuilds the current tab.
clear(confirm, f1, f2) ==
  /\ MayFail(f1) /\ MayFail(f2)
  /\ (~confirm \/ f1 # "none") => f2 = "none"
  /\ LET r == clear_all(Db, now, f1)
     IN  IF ~confirm
         THEN UNCHANGED vars
         ELSE IF r.raised
         THEN /\ openConns' = openConns + r.open
              /\ UNCHANGED <<entries, nextId, now, tz, tab, dark, chart, listed, res,
                             dialog, reportsDir, reportFiles>>
         ELSE /\ entries' = r.db.rows
              /\ nextId' = r.db.seq
              /\ Rebuild(tab, r.db, f2)
              /\ UNCHANGED <<now, tz, dark, dialog, reportsDir, reportFiles>>

\* The text f"[Quick: {e}]".
QuickText(e) == <<"[","Q","u","i","c","k",":"," ">> \o LabelChars[e] \o <<"]">>

\* The part of quick and analyze_q after the emotion is known: save_entry,
\* show, update_chart.
Record(text, e, s, f1, f2) ==
  /\ MayFail(f1) /\ MayFail(f2)
  /\ f1 # "none" => f2 = "none"
  /\ LET r == save_entry(Db, now, text, e, s, f1)
         c == update_chart(r.db, now, f2)
     IN  IF r.raised
         THEN /\ openConns' = openConns + r.open
              /\ UNCHANGED <<entries, nextId, chart, res>>
         ELSE /\ entries' = r.db.rows
              /\ nextId' = r.db.seq
              /\ res' = show(e, s)
              /\ chart' = c.chart
              /\ openConns' = openConns + c.open
  /\ UNCHANGED <<now, tz, tab, dark, listed, dialog, reportsDir, reportFiles>>

quick(e, f1, f2) ==
  /\ tab = 0
  /\ Record(QuickText(e), e, STRESS[e], f1, f2)

analyze_q(typed, f1, f2) ==
  /\ tab = 0
  /\ LET text == Stripped[typed]
     IN  IF text # <<>>
         THEN Record(text, Analysed[text][1], Analysed[text][2], f1, f2)
         ELSE f1 = "none" /\ f2 = "none" /\ UNCHANGED vars

analyze_t(typed, f1) ==
  /\ tab = 1
  /\ MayFail(f1)
  /\ LET text == Stripped[typed]
         e    == Analysed[text][1]
         s    == Analysed[text][2]
         r    == save_entry(Db, now, text, e, s, f1)
     IN  IF text # <<>>
         THEN /\ IF r.raised
                 THEN /\ openConns' = openConns + r.open
                      /\ UNCHANGED <<entries, nextId, res>>
                 ELSE /\ entries' = r.db.rows
                      /\ nextId' = r.db.seq
                      /\ res' = [drawn |-> TRUE, emotion |-> e, stress |-> s,
                                 color |-> "fg"]
                      /\ UNCHANGED openConns
              /\ UNCHANGED <<now, tz, tab, dark, chart, listed, dialog, reportsDir,
                             reportFiles>>
         ELSE f1 = "none" /\ UNCHANGED vars

\* save_r: the report, then the messagebox.
save_r(f1) ==
  /\ MayFail(f1)
  /\ \E o \in save_report(Db, now, tz, [dir |-> reportsDir, files |-> reportFiles], f1) :
       /\ reportsDir' = o.dir
       /\ reportFiles' = o.files
       /\ openConns' = openConns + o.open
       /\ dialog' = CASE o.ret = "True" -> "Saved to daily_reports folder!"
                      [] o.ret = "None" -> "No entries today"
                      [] OTHER -> dialog
  /\ UNCHANGED <<entries, nextId, now, tz, tab, dark, chart, listed, res>>

\* The wall clock moves on by half a day.
Tick ==
  /\ now < SecondsPerDay + MaxTicks * HalfDay
  /\ now' = now + HalfDay
  /\ UNCHANGED <<entries, nextId, tz, openConns, tab, dark, chart, listed, res,
                 dialog, reportsDir, reportFiles>>

\* The interpreter drops the connection a failed db_exec left behind.
Finalize ==
  /\ openConns > 0
  /\ openConns' = openConns - 1
  /\ UNCHANGED <<entries, nextId, now, tz, tab, dark, chart, listed, res, dialog,
                 reportsDir, reportFiles>>

----------------------------------------------------------------------------
\* The program.

Init ==
  /\ entries = <<>>
  /\ nextId = 1
  /\ now = SecondsPerDay
  /\ tz \in TzOffsets
  /\ openConns = 0
  /\ tab = 0
  /\ dark = FALSE
  /\ chart = [drawn |-> TRUE, data |-> <<>>]
  /\ listed = NoList
  /\ res = NoResult
  /\ dialog = ""
  /\ reportsDir = FALSE
  /\ reportFiles = <<>>

\* Whether the model lets one more row in.
Room(cap) == nextId <= cap

\* The whole application, the storage working.
DoQuick == \E e \in QuickInputs : Room(MaxInserts) /\ quick(e, "none", "none")

DoAnalyzeQ == \E t \in TypedTexts : Room(MaxInserts) /\ analyze_q(t, "none", "none")

DoAnalyzeT == \E t \in TypedTexts : Room(MaxInserts) /\ analyze_t(t, "none")

DoSaveR == save_r("none")

DoClear == \E confirm \in BOOLEAN : clear(confirm, "none", "none")

DoToggle == toggle("none")

DoSwitch == \E i \in 0..3 : switch(i, "none")

Next ==
  \/ DoQuick
  \/ DoAnalyzeQ
  \/ DoAnalyzeT
  \/ DoSaveR
  \/ DoClear
  \/ DoToggle
  \/ DoSwitch
  \/ Tick

Spec == Init /\ [][Next]_vars

\* The handlers that drive the store: the Quick Entry buttons, Clear, the tabs.
StoreQuick == \E e \in StoreInputs : Room(MaxRows) /\ quick(e, "none", "none")

StoreClear == clear(TRUE, "none", "none")

StoreSwitch == \E i \in 0..3 : switch(i, "none")

StoreNext ==
  \/ StoreQuick
  \/ StoreClear
  \/ StoreSwitch
  \/ Tick

StoreSpec == Init /\ [][StoreNext]_vars

\* The whole application, a statement failing now and then.
FaultyQuick ==
  \E e \in QuickInputs, f1, f2 \in Faults : Room(MaxInserts) /\ quick(e, f1, f2)

FaultyAnalyzeQ ==
  \E t \in TypedTexts, f1, f2 \in Faults : Room(MaxInserts) /\ analyze_q(t, f1, f2)

FaultyAnalyzeT ==
  \E t \in TypedTexts, f1 \in Faults : Room(MaxInserts) /\ analyze_t(t, f1)

FaultySaveR == \E f1 \in Faults : save_r(f1)

FaultyClear == \E confirm \in BOOLEAN, f1, f2 \in Faults : clear(confirm, f1, f2)

FaultyToggle == \E f \in Faults : toggle(f)

FaultySwitch == \E i \in 0..3, f \in Faults : switch(i, f)

FaultNext ==
  \/ FaultyQuick
  \/ FaultyAnalyzeQ
  \/ FaultyAnalyzeT
  \/ FaultySaveR
  \/ FaultyClear
  \/ FaultyToggle
  \/ FaultySwitch
  \/ Tick
  \/ Finalize

FaultSpec == Init /\ [][FaultNext]_vars

----------------------------------------------------------------------------
\* Properties.

Range(f) == {f[i] : i \in DOMAIN f}

\* Texts analyze is compared on: the empty text, what the handlers pass it,
\* the Quick Entry texts, and sentences with one, two and three keywords.
AnalyzeInputs ==
  {<<>>}
  \cup {Stripped[t] : t \in TypedTexts}
  \cup {QuickText(e) : e \in EmotionSet}
  \cup { <<"I"," ","f","e","e","l"," ","s","o"," ","T","I","R","E","D"," ","t","o","d","a","y">>,
         <<"s","t","u","d","y"," ","e","x","a","m"," ","d","e","a","d","l","i","n","e">>,
         <<"s","l","e","e","p","y"," ","g","o","a","l">>,
         <<"o","k","a","y"," ","p","a","n","i","c">>,
         <<"O","K","A","Y">> }

\* count(x): the keywords of x that occur in the lower-cased text.
KeywordCount(x, text) ==
  Len(SelectSeq(WORDS[x], LAMBDA w : Contains(Lower(text), w)))

\* The emotion the claim names: the first in EMOTIONS whose count is the
\* maximum when that is above zero, and Neutral otherwise.
FirstArgmax(text) ==
  LET hit(i) == KeywordCount(EMOTIONS[i], text)
      maxed  == {i \in DOMAIN EMOTIONS : \A j \in DOMAIN EMOTIONS : hit(j) <= hit(i)}
      first  == CHOOSE i \in maxed : \A j \in maxed : i <= j
  IN  IF hit(first) = 0 THEN "Neutral" ELSE EMOTIONS[first]

Expected == [t \in AnalyzeInputs |-> <<FirstArgmax(t), STRESS[FirstArgmax(t)]>>]

Analysis == [t \in AnalyzeInputs |-> analyze(t)]

QuickTexts == {QuickText(e) : e \in EmotionSet}

\* C1: analyze(text) is (e, STRESS[e]) with e the first emotion of EMOTIONS
\* whose keyword count is the maximum, and Neutral when no keyword occurs, on
\* every input text, the empty one included; every entry the analysis
\* handlers stored carries that result for its text.
C1_AnalyzeFirstArgmax ==
  /\ Analysis = Expected
  /\ \A i \in DOMAIN entries :
       entries[i].text \notin QuickTexts =>
         /\ entries[i].text \in AnalyzeInputs
         /\ <<entries[i].emotion, entries[i].stress>> = Expected[entries[i].text]

\* An entry analysed from "Mad Sad", where Sad and Angry tie and Sad comes first.
C1_Witness ==
  \E i \in DOMAIN entries :
    /\ entries[i].text = <<"M","a","d"," ","S","a","d">>
    /\ entries[i].emotion = "Sad"
    /\ entries[i].stress = 65

\* C2: in every state the application reaches, every stored entry has an
\* emotion of EMOTIONS and the stress STRESS gives that emotion.
C2_StressMatchesEmotion ==
  \A i \in DOMAIN entries :
    /\ entries[i].emotion \in EmotionSet
    /\ entries[i].stress = STRESS[entries[i].emotion]

\* A quick entry and an analysed entry stored together.
C2_Witness ==
  /\ Len(entries) = 2
  /\ \E i \in DOMAIN entries : entries[i].text \in QuickTexts
  /\ \E i \in DOMAIN entries : entries[i].text \notin QuickTexts

\* Row a is newer than row b: a later timestamp, or the same and a larger id.
Newer(a, b) == a.ts > b.ts \/ (a.ts = b.ts /\ a.id > b.id)

RowOf(id) == CHOOSE r \in Range(entries) : r.id = id

\* C3: the rows get_all() returned to the Reports tab are ordered newest
\* first by timestamp, rows of equal timestamp by newest id first, so the
\* first row is the entry recorded last.
C3_RecentNewestFirst ==
  listed.drawn =>
    /\ \A i \in 1..(Len(listed.ids) - 1) :
         Newer(RowOf(listed.ids[i]), RowOf(listed.ids[i + 1]))
    /\ entries # <<>> => listed.ids[1] = entries[Len(entries)].id

\* The mapping has one key per label with a stored entry, valued with the
\* number of stored entries of that label.
CountsOf(data, rows) ==
  /\ DOMAIN data = {rows[i].emotion : i \in DOMAIN rows}
  /\ \A e \in DOMAIN data : data[e] = Cardinality({i \in DOMAIN rows : rows[i].emotion = e})

\* C4: get_counts() maps exactly the labels that have a stored entry, each to
\* the number of its stored entries, and so does the chart drawn from it.
C4_CountsByEmotion ==
  /\ \A d \in get_counts(Db, now, "none").out : CountsOf(d, entries)
  /\ chart.drawn => CountsOf(chart.data, entries)

\* One Sad and two Tired entries counted.
C4_Witness ==
  /\ chart.drawn
  /\ chart.data = ("Sad" :> 1) @@ ("Tired" :> 2)

\* Every read comes back empty.
ReadsEmpty ==
  /\ get_all(Db, now, "none").out = {<<>>}
  /\ get_today(Db, now, tz, "none").out = {<<>>}
  /\ get_counts(Db, now, "none").out = {<<>>}

\* C5: after clear_all() every read is empty, and stays empty until an entry
\* is saved.
C5_ClearEmptiesReads ==
  [][ /\ clear(TRUE, "none", "none") => ReadsEmpty'
      /\ (ReadsEmpty /\ nextId' = nextId) => ReadsEmpty' ]_vars

\* The table emptied after rows were inserted, and the chart redrawn empty.
C5_Witness ==
  /\ nextId > 2
  /\ entries = <<>>
  /\ chart.drawn
  /\ chart.data = <<>>

\* The local calendar day of a stored timestamp.
LocalDate(ts) == (ts + tz) \div SecondsPerDay

\* C6: get_today() returns exactly the entries whose timestamp falls, in
\* local time, on the current local date.
C6_TodayIsLocalToday ==
  \A rows \in get_today(Db, now, tz, "none").out :
    rows = SelectSeq(entries, LAMBDA r : LocalDate(r.ts) = Today(now, tz))

\* The first label, in the order of the entries, whose count is the largest.
FirstMode(emotions) ==
  LET modes == {i \in DOMAIN emotions :
                  \A j \in DOMAIN emotions :
                    Count(emotions, emotions[j]) <= Count(emotions, emotions[i])}
  IN  emotions[CHOOSE i \in modes : \A j \in modes : i <= j]

\* C7: the dominant emotion of every report written is the mode of its
\* entries' labels, the first met in the order of get_today() on a tie.
C7_DominantIsFirstMode ==
  \A day \in DOMAIN reportFiles :
    reportFiles[day].dominant =
      FirstMode([i \in DOMAIN reportFiles[day].lines |-> reportFiles[day].lines[i].emotion])

Blank(typed) == \A i \in DOMAIN typed : typed[i] \in Whitespace

\* C9: Analyze on a blank text leaves the stored entries as they are; on any
\* other text it appends exactly one entry.
C9_BlankTextIsNoOp ==
  [][ \A t \in TypedTexts :
        (analyze_q(t, "none", "none") \/ analyze_t(t, "none")) =>
          IF Blank(t)
          THEN entries' = entries /\ nextId' = nextId
          ELSE /\ Len(entries') = Len(entries) + 1
               /\ SubSeq(entries', 1, Len(entries)) = entries ]_vars

\* The Text Analysis tab after a text that is not blank was analysed and stored.
C9_Witness ==
  /\ tab = 1
  /\ res.drawn
  /\ Len(entries) = 1
  /\ entries[1].text = <<"x","y","z","1","2","3">>

\* C10: db_exec closes its connection on every way out, so no connection is
\* open once an operation has returned or failed.
C10_NoConnectionLeftOpen == openConns = 0

====
